---- MODULE Spec2Model ----
(***************************************************************************)
(* State-machine model of labchain-web's stateful core:                    *)
(*   - the submission review workflow of src/lib/data.ts (node requests,   *)
(*     duplicate check, approval materialising a directory listing), over  *)
(*     the tables created by initDatabase;                                 *)
(*   - the session manager of src/lib/auth.ts (sessions, expiry, cookie    *)
(*     validation).                                                        *)
(* Spec        : the workflow, every data.ts operation callable directly.  *)
(* GuardedSpec : the workflow where requests are stored only after the     *)
(*               duplicate check said "no duplicate".                      *)
(* AuthSpec    : users, sessions and the clock.                            *)
(***************************************************************************)
EXTENDS Integers, Sequences, FiniteSets, TLC

VARIABLES
    node_requests,   \* rows of table node_requests
    rpc_endpoints,   \* rows of table rpc_endpoints
    boot_nodes,      \* rows of table boot_nodes
    beacon_nodes,    \* rows of table beacon_nodes
    sqlite_sequence, \* AUTOINCREMENT counters, one per table
    last,            \* the call that made the last step, and what it returned
    token_requests,  \* rows of table token_requests
    settings,        \* table settings: the value stored under each key
    users,           \* rows of table users
    sessions,        \* rows of table sessions
    now,             \* the clock, in ticks
    issued,          \* how many session ids generateSessionId has produced
    lastAuth         \* the auth call that made the last step, and its result

dataVars == <<node_requests, rpc_endpoints, boot_nodes, beacon_nodes, sqlite_sequence, last>>
authVars == <<users, sessions, now, issued, lastAuth>>
tokenVars == <<token_requests>>
mailVars == <<settings>>
vars == <<node_requests, rpc_endpoints, boot_nodes, beacon_nodes, sqlite_sequence, last,
          token_requests, settings, users, sessions, now, issued, lastAuth>>

----------------------------------------------------------------------------
(* Bounds *)

MaxRequests == 2      \* node_requests rows ever inserted
MaxRows == 2          \* directory rows ever inserted, all three tables together

----------------------------------------------------------------------------
(* Values *)

\* SQL NULL, also what JavaScript sees as null / undefined
NULL == "NULL"

\* JavaScript's a || b on strings: a unless a is null, undefined or ''
JsOr(a, b) == IF a = NULL \/ a = "" THEN b ELSE a

\* JavaScript's a ?? b
JsCoalesce(a, b) == IF a = NULL THEN b ELSE a

\* SQL's a = b: never true when either side is NULL
SqlEq(a, b) == a # NULL /\ b # NULL /\ a = b

\* the payloads a visitor submits; node_type is an unconstrained string in
\* createNodeRequest, so one payload carries a type outside the three.  A
\* payload is a JavaScript object and may carry a status of its own.
Payloads ==
    { [node_type |-> "rpc",      name |-> "n1", endpoint |-> "e1", contact_email |-> "m1",
       status |-> "approved"],
      [node_type |-> "bootnode", name |-> "n2", endpoint |-> "e1", contact_email |-> NULL,
       status |-> NULL],
      [node_type |-> "beacon",   name |-> "n1", endpoint |-> "e2", contact_email |-> "m1",
       status |-> "rejected"],
      [node_type |-> "other",    name |-> "n2", endpoint |-> "e2", contact_email |-> NULL,
       status |-> NULL] }

Endpoints == {"e1", "e2"}
NodeTypes == {"rpc", "bootnode", "beacon", "other"}
DirectoryTypes == {"rpc", "bootnode", "beacon"}
Statuses == {"pending", "approved", "rejected"}
AdminNotes == {NULL, "", "a", "b"}
StorageFaults == {"none", "insert", "update"}

----------------------------------------------------------------------------
(* Tables *)

Ids(table) == {r.id : r \in table}

Row(table, id) == CHOOSE r \in table : r.id = id

\* rows inserted so far into the three directory tables
DirectoryInserts ==
    sqlite_sequence.rpc_endpoints + sqlite_sequence.boot_nodes + sqlite_sequence.beacon_nodes

\* what .get() returns when no row matches
NoRow == [id |-> 0]

getNodeRequestById(id) ==
    IF id \in Ids(node_requests) THEN Row(node_requests, id) ELSE NoRow

TrackingIds == {r.tracking_id : r \in node_requests}

getNodeRequestByTrackingId(trackingId) ==
    IF trackingId \in TrackingIds
    THEN CHOOSE r \in node_requests : r.tracking_id = trackingId
    ELSE NoRow

\* the directory rows an INSERT produces; columns the statement does not
\* name take the schema's default, NULL where there is none
RpcRow(id, data) ==
    [id |-> id, name |-> data.name, endpoint |-> data.endpoint, type |-> data.type]

BootRow(id, data) ==
    [id |-> id, name |-> data.name, enode |-> data.enode]

\* BeaconRow with the ENR written to the endpoint column instead of enr
BeaconRow_EnrInEndpoint(id, data) ==
    [id |-> id, name |-> data.name, endpoint |-> JsOr(data.enr, ""),
     enr |-> NULL, p2p |-> JsOr(data.p2p, "")]

BeaconRow(id, data) ==
    [id |-> id, name |-> data.name, endpoint |-> NULL,
     enr |-> JsOr(data.enr, ""), p2p |-> JsOr(data.p2p, "")]

----------------------------------------------------------------------------
(* Duplicate checker *)

\* isEndpointDuplicate with the directory table looked at before the requests
isEndpointDuplicate_DirectoryFirst(endpoint, nodeType) ==
    IF nodeType = "rpc" /\ \E n \in rpc_endpoints : SqlEq(n.endpoint, endpoint)
    THEN [exists |-> TRUE, location |-> "RPC endpoints"]
    ELSE IF nodeType = "bootnode" /\ \E n \in boot_nodes : SqlEq(n.enode, endpoint)
    THEN [exists |-> TRUE, location |-> "Boot nodes"]
    ELSE IF nodeType = "beacon" /\ \E n \in beacon_nodes : SqlEq(n.endpoint, endpoint)
    THEN [exists |-> TRUE, location |-> "Beacon nodes"]
    ELSE IF \E r \in node_requests : SqlEq(r.endpoint, endpoint) /\ r.status # "rejected"
    THEN [exists |-> TRUE, location |-> "pending request"]
    ELSE [exists |-> FALSE, location |-> ""]

\* isEndpointDuplicate consulting every directory table whatever the node type
isEndpointDuplicate_AnyTable(endpoint, nodeType) ==
    IF \E r \in node_requests : SqlEq(r.endpoint, endpoint) /\ r.status # "rejected"
    THEN [exists |-> TRUE, location |-> "pending request"]
    ELSE IF \E n \in rpc_endpoints : SqlEq(n.endpoint, endpoint)
    THEN [exists |-> TRUE, location |-> "RPC endpoints"]
    ELSE IF \E n \in boot_nodes : SqlEq(n.enode, endpoint)
    THEN [exists |-> TRUE, location |-> "Boot nodes"]
    ELSE IF \E n \in beacon_nodes : SqlEq(n.endpoint, endpoint)
    THEN [exists |-> TRUE, location |-> "Beacon nodes"]
    ELSE [exists |-> FALSE, location |-> ""]

isEndpointDuplicate(endpoint, nodeType) ==
    IF \E r \in node_requests : SqlEq(r.endpoint, endpoint) /\ r.status # "rejected"
    THEN [exists |-> TRUE, location |-> "pending request"]
    ELSE IF nodeType = "rpc" /\ \E n \in rpc_endpoints : SqlEq(n.endpoint, endpoint)
    THEN [exists |-> TRUE, location |-> "RPC endpoints"]
    ELSE IF nodeType = "bootnode" /\ \E n \in boot_nodes : SqlEq(n.enode, endpoint)
    THEN [exists |-> TRUE, location |-> "Boot nodes"]
    ELSE IF nodeType = "beacon" /\ \E n \in beacon_nodes : SqlEq(n.endpoint, endpoint)
    THEN [exists |-> TRUE, location |-> "Beacon nodes"]
    ELSE [exists |-> FALSE, location |-> ""]

----------------------------------------------------------------------------
(* Request ledger *)

\* randomBytes(4): 32 random bits as four bytes.  The n-th distinct draw.
randomBytes(n) == <<171, 205, 239, n % 256>>

\* Buffer.toString('hex'): two lowercase hexadecimal digits per byte
HexDigits == <<"0", "1", "2", "3", "4", "5", "6", "7", "8", "9",
               "a", "b", "c", "d", "e", "f">>

RECURSIVE toStringHex(_)
toStringHex(bytes) ==
    IF bytes = <<>> THEN <<>>
    ELSE <<HexDigits[(Head(bytes) \div 16) + 1], HexDigits[(Head(bytes) % 16) + 1]>>
         \o toStringHex(Tail(bytes))

\* String.prototype.toUpperCase(), character by character
UpperOf == [c \in {"a", "b", "c", "d", "e", "f"} |->
               CASE c = "a" -> "A" [] c = "b" -> "B" [] c = "c" -> "C"
                 [] c = "d" -> "D" [] c = "e" -> "E" [] c = "f" -> "F"]

toUpperCase(str) ==
    [i \in 1..Len(str) |-> IF str[i] \in DOMAIN UpperOf THEN UpperOf[str[i]] ELSE str[i]]

ReqPrefix == <<"R", "E", "Q", "-">>
TknPrefix == <<"T", "K", "N", "-">>

\* generateTrackingId that leaves the hex digits as Buffer.toString wrote them
generateTrackingId_LowerCase ==
    TrackingIds \cup
        {ReqPrefix \o toStringHex(randomBytes(sqlite_sequence.node_requests + 1))}

\* generateTrackingId draws 32 random bits: the draw either repeats the one
\* of a stored request (a collision) or is one no stored request has
generateTrackingId ==
    TrackingIds \cup
        {ReqPrefix \o toUpperCase(toStringHex(randomBytes(sqlite_sequence.node_requests + 1)))}

Called(op, id, ret) == last' = [op |-> op, id |-> id, ret |-> ret]

createNodeRequest(data, trackingId) ==
    /\ sqlite_sequence.node_requests < MaxRequests
    /\ IF trackingId \in TrackingIds
       THEN \* UNIQUE constraint failed: stmt.run throws, nothing is stored
            /\ Called("createNodeRequest", 0, "throw")
            /\ UNCHANGED <<node_requests, sqlite_sequence>>
       ELSE LET id == sqlite_sequence.node_requests + 1 IN
            /\ node_requests' = node_requests \cup
                 {[id |-> id, tracking_id |-> trackingId, node_type |-> data.node_type,
                   name |-> data.name, endpoint |-> data.endpoint,
                   contact_email |-> JsOr(data.contact_email, ""),
                   status |-> "pending", admin_notes |-> NULL]}
            /\ sqlite_sequence' = [sqlite_sequence EXCEPT !.node_requests = id]
            /\ Called("createNodeRequest", id, "row")
    /\ UNCHANGED <<rpc_endpoints, boot_nodes, beacon_nodes>>

\* the UPDATE writing the notes of the call, empty when the call has none
StatusUpdated_NotesOverwritten(id, status, adminNotes) ==
    LET existing == Row(node_requests, id) IN
    (node_requests \ {existing}) \cup
        {[existing EXCEPT !.status = status, !.admin_notes = JsOr(adminNotes, "")]}

\* the UPDATE of updateNodeRequestStatus, as a new value of the table
StatusUpdated(id, status, adminNotes) ==
    LET existing == Row(node_requests, id) IN
    (node_requests \ {existing}) \cup
        {[existing EXCEPT !.status = status,
                          !.admin_notes = JsOr(adminNotes, JsOr(existing.admin_notes, ""))]}

updateNodeRequestStatus(id, status, adminNotes) ==
    /\ IF getNodeRequestById(id) = NoRow
       THEN /\ Called("updateNodeRequestStatus", id, "null")
            /\ UNCHANGED node_requests
       ELSE /\ node_requests' = StatusUpdated(id, status, adminNotes)
            /\ Called("updateNodeRequestStatus", id, "row")
    /\ UNCHANGED <<rpc_endpoints, boot_nodes, beacon_nodes, sqlite_sequence>>

deleteNodeRequest(id) ==
    /\ node_requests' = {r \in node_requests : r.id # id}
    /\ Called("deleteNodeRequest", id, IF id \in Ids(node_requests) THEN "true" ELSE "false")
    /\ UNCHANGED <<rpc_endpoints, boot_nodes, beacon_nodes, sqlite_sequence>>

----------------------------------------------------------------------------
(* Directory tables: the admin CRUD surface *)

RpcInputs ==
    { [name |-> "n1", endpoint |-> "e1", type |-> "official"] }

BootInputs ==
    { [name |-> "n1", enode |-> "e1"] }

BeaconInputs ==
    { [name |-> "n1", enr |-> "e2", p2p |-> NULL] }

\* the partial updates an admin sends: an absent field is NULL
RpcUpdates == { [name |-> NULL, endpoint |-> "e2", type |-> NULL] }
BootUpdates == { [name |-> NULL, enode |-> "e2"] }
BeaconUpdates == { [name |-> "n2", enr |-> "e1", p2p |-> NULL] }

RpcInserted(data) ==
    rpc_endpoints \cup {RpcRow(sqlite_sequence.rpc_endpoints + 1, data)}

BootInserted(data) ==
    boot_nodes \cup {BootRow(sqlite_sequence.boot_nodes + 1, data)}

BeaconInserted(data) ==
    beacon_nodes \cup {BeaconRow(sqlite_sequence.beacon_nodes + 1, data)}

createRpcEndpoint(data) ==
    /\ DirectoryInserts < MaxRows
    /\ rpc_endpoints' = RpcInserted(data)
    /\ sqlite_sequence' = [sqlite_sequence EXCEPT !.rpc_endpoints = @ + 1]
    /\ Called("createRpcEndpoint", sqlite_sequence.rpc_endpoints + 1, "row")
    /\ UNCHANGED <<node_requests, boot_nodes, beacon_nodes>>

updateRpcEndpoint(id, data) ==
    /\ IF id \notin Ids(rpc_endpoints)
       THEN /\ Called("updateRpcEndpoint", id, "null")
            /\ UNCHANGED rpc_endpoints
       ELSE LET existing == Row(rpc_endpoints, id) IN
            /\ rpc_endpoints' = (rpc_endpoints \ {existing}) \cup
                 {[existing EXCEPT !.name = JsCoalesce(data.name, existing.name),
                                   !.endpoint = JsCoalesce(data.endpoint, existing.endpoint),
                                   !.type = JsCoalesce(data.type, existing.type)]}
            /\ Called("updateRpcEndpoint", id, "row")
    /\ UNCHANGED <<node_requests, boot_nodes, beacon_nodes, sqlite_sequence>>

\* deleteRpcEndpoint cascading to the requests of the deleted endpoint
deleteRpcEndpoint_Cascade(id) ==
    /\ rpc_endpoints' = {r \in rpc_endpoints : r.id # id}
    /\ node_requests' =
         {q \in node_requests :
             ~(q.node_type = "rpc" /\ \E r \in rpc_endpoints : r.id = id /\ r.endpoint = q.endpoint)}
    /\ Called("deleteRpcEndpoint", id, IF id \in Ids(rpc_endpoints) THEN "true" ELSE "false")
    /\ UNCHANGED <<boot_nodes, beacon_nodes, sqlite_sequence>>

deleteRpcEndpoint(id) ==
    /\ rpc_endpoints' = {r \in rpc_endpoints : r.id # id}
    /\ Called("deleteRpcEndpoint", id, IF id \in Ids(rpc_endpoints) THEN "true" ELSE "false")
    /\ UNCHANGED <<node_requests, boot_nodes, beacon_nodes, sqlite_sequence>>

createBootNode(data) ==
    /\ DirectoryInserts < MaxRows
    /\ boot_nodes' = BootInserted(data)
    /\ sqlite_sequence' = [sqlite_sequence EXCEPT !.boot_nodes = @ + 1]
    /\ Called("createBootNode", sqlite_sequence.boot_nodes + 1, "row")
    /\ UNCHANGED <<node_requests, rpc_endpoints, beacon_nodes>>

updateBootNode(id, data) ==
    /\ IF id \notin Ids(boot_nodes)
       THEN /\ Called("updateBootNode", id, "null")
            /\ UNCHANGED boot_nodes
       ELSE LET existing == Row(boot_nodes, id) IN
            /\ boot_nodes' = (boot_nodes \ {existing}) \cup
                 {[existing EXCEPT !.name = JsCoalesce(data.name, existing.name),
                                   !.enode = JsCoalesce(data.enode, existing.enode)]}
            /\ Called("updateBootNode", id, "row")
    /\ UNCHANGED <<node_requests, rpc_endpoints, beacon_nodes, sqlite_sequence>>

deleteBootNode(id) ==
    /\ boot_nodes' = {r \in boot_nodes : r.id # id}
    /\ Called("deleteBootNode", id, IF id \in Ids(boot_nodes) THEN "true" ELSE "false")
    /\ UNCHANGED <<node_requests, rpc_endpoints, beacon_nodes, sqlite_sequence>>

createBeaconNode(data) ==
    /\ DirectoryInserts < MaxRows
    /\ beacon_nodes' = BeaconInserted(data)
    /\ sqlite_sequence' = [sqlite_sequence EXCEPT !.beacon_nodes = @ + 1]
    /\ Called("createBeaconNode", sqlite_sequence.beacon_nodes + 1, "row")
    /\ UNCHANGED <<node_requests, rpc_endpoints, boot_nodes>>

updateBeaconNode(id, data) ==
    /\ IF id \notin Ids(beacon_nodes)
       THEN /\ Called("updateBeaconNode", id, "null")
            /\ UNCHANGED beacon_nodes
       ELSE LET existing == Row(beacon_nodes, id) IN
            /\ beacon_nodes' = (beacon_nodes \ {existing}) \cup
                 {[existing EXCEPT !.name = JsCoalesce(data.name, existing.name),
                                   !.enr = JsCoalesce(data.enr, JsCoalesce(existing.enr, "")),
                                   !.p2p = JsCoalesce(data.p2p, JsCoalesce(existing.p2p, ""))]}
            /\ Called("updateBeaconNode", id, "row")
    /\ UNCHANGED <<node_requests, rpc_endpoints, boot_nodes, sqlite_sequence>>

deleteBeaconNode(id) ==
    /\ beacon_nodes' = {r \in beacon_nodes : r.id # id}
    /\ Called("deleteBeaconNode", id, IF id \in Ids(beacon_nodes) THEN "true" ELSE "false")
    /\ UNCHANGED <<node_requests, rpc_endpoints, boot_nodes, sqlite_sequence>>

----------------------------------------------------------------------------
(* Approval engine *)

\* fault: which of the two writes, if any, the store fails (stmt.run throws)
approveAndCreateNode(requestId, fault) ==
    LET request == getNodeRequestById(requestId) IN
    IF request = NoRow
    THEN /\ fault = "none"
         /\ Called("approveAndCreateNode", requestId, "Request not found")
         /\ UNCHANGED <<node_requests, rpc_endpoints, boot_nodes, beacon_nodes, sqlite_sequence>>
    ELSE IF request.node_type \in DirectoryTypes /\ fault = "insert"
    THEN \* the INSERT throws inside the try block
         /\ DirectoryInserts < MaxRows
         /\ Called("approveAndCreateNode", requestId, "error")
         /\ UNCHANGED <<node_requests, rpc_endpoints, boot_nodes, beacon_nodes, sqlite_sequence>>
    ELSE /\ fault # "insert"
         /\ request.node_type \in DirectoryTypes => DirectoryInserts < MaxRows
         /\ rpc_endpoints' =
              IF request.node_type = "rpc"
              THEN RpcInserted([name |-> request.name, endpoint |-> request.endpoint,
                                type |-> "community"])
              ELSE rpc_endpoints
         /\ boot_nodes' =
              IF request.node_type = "bootnode"
              THEN BootInserted([name |-> request.name, enode |-> request.endpoint])
              ELSE boot_nodes
         /\ beacon_nodes' =
              IF request.node_type = "beacon"
              THEN BeaconInserted([name |-> request.name, enr |-> request.endpoint, p2p |-> ""])
              ELSE beacon_nodes
         /\ sqlite_sequence' =
              [sqlite_sequence EXCEPT
                  !.rpc_endpoints = IF request.node_type = "rpc" THEN @ + 1 ELSE @,
                  !.boot_nodes = IF request.node_type = "bootnode" THEN @ + 1 ELSE @,
                  !.beacon_nodes = IF request.node_type = "beacon" THEN @ + 1 ELSE @]
         /\ IF fault = "update"
            THEN \* the UPDATE of updateNodeRequestStatus throws, after the INSERT
                 /\ Called("approveAndCreateNode", requestId, "error")
                 /\ UNCHANGED node_requests
            ELSE /\ node_requests' = StatusUpdated(requestId, "approved", NULL)
                 /\ Called("approveAndCreateNode", requestId, "success")

----------------------------------------------------------------------------
(* Token requests *)

TokenStatuses == {"pending", "approved", "transferred", "rejected"}

\* what the admin passes as transferredAmount: an amount, the empty text of
\* a form field left blank, or nothing
TransferredAmounts == {"a1", "", NULL}

\* the payloads a visitor submits for tokens; the second has an empty email
TokenPayloads ==
    { [email |-> "m1", requested_amount |-> "a1", contact_info |-> NULL,
       status |-> "transferred"],
      [email |-> "", requested_amount |-> "a2", contact_info |-> "c",
       status |-> NULL] }

TokenTrackingIds == {r.tracking_id : r \in token_requests}

generateTokenTrackingId ==
    TokenTrackingIds \cup
        {TknPrefix \o toUpperCase(toStringHex(randomBytes(sqlite_sequence.token_requests + 1)))}

getTokenRequestById(id) ==
    IF id \in Ids(token_requests) THEN Row(token_requests, id) ELSE NoRow

getTokenRequestByTrackingId(trackingId) ==
    IF \E r \in token_requests : r.tracking_id = trackingId
    THEN CHOOSE r \in token_requests : r.tracking_id = trackingId
    ELSE NoRow

createTokenRequest(data, trackingId) ==
    /\ sqlite_sequence.token_requests < MaxRequests
    /\ IF trackingId \in TokenTrackingIds
       THEN \* UNIQUE constraint failed: stmt.run throws, nothing is stored
            /\ Called("createTokenRequest", 0, "throw")
            /\ UNCHANGED <<token_requests, sqlite_sequence>>
       ELSE LET id == sqlite_sequence.token_requests + 1 IN
            /\ token_requests' = token_requests \cup
                 {[id |-> id, tracking_id |-> trackingId, email |-> data.email,
                   requested_amount |-> data.requested_amount,
                   contact_info |-> JsOr(data.contact_info, ""),
                   status |-> "pending", transferred_amount |-> NULL,
                   admin_notes |-> NULL]}
            /\ sqlite_sequence' = [sqlite_sequence EXCEPT !.token_requests = id]
            /\ Called("createTokenRequest", id, "row")
    /\ UNCHANGED <<node_requests, rpc_endpoints, boot_nodes, beacon_nodes>>

\* the UPDATE with the requested amount written as the transferred one
TokenStatusUpdated_RequestedAmount(id, status, adminNotes, transferredAmount) ==
    LET existing == Row(token_requests, id) IN
    (token_requests \ {existing}) \cup
        {[existing EXCEPT
            !.status = status,
            !.admin_notes = JsOr(adminNotes, JsOr(existing.admin_notes, "")),
            !.transferred_amount =
                IF status = "transferred" THEN existing.requested_amount
                ELSE JsOr(transferredAmount, JsOr(existing.transferred_amount, ""))]}

\* the UPDATE of updateTokenRequestStatus, as a new value of the table
TokenStatusUpdated(id, status, adminNotes, transferredAmount) ==
    LET existing == Row(token_requests, id) IN
    (token_requests \ {existing}) \cup
        {[existing EXCEPT
            !.status = status,
            !.admin_notes = JsOr(adminNotes, JsOr(existing.admin_notes, "")),
            !.transferred_amount =
                JsOr(transferredAmount, JsOr(existing.transferred_amount, ""))]}

updateTokenRequestStatus(id, status, adminNotes, transferredAmount) ==
    /\ IF getTokenRequestById(id) = NoRow
       THEN /\ Called("updateTokenRequestStatus", id, "null")
            /\ UNCHANGED token_requests
       ELSE /\ token_requests' = TokenStatusUpdated(id, status, adminNotes, transferredAmount)
            /\ Called("updateTokenRequestStatus", id, "row")
    /\ UNCHANGED <<node_requests, rpc_endpoints, boot_nodes, beacon_nodes, sqlite_sequence>>

\* deleteTokenRequest that reports a deletion whether or not a row went
deleteTokenRequest_ReportsTrue(id) ==
    /\ token_requests' = {r \in token_requests : r.id # id}
    /\ Called("deleteTokenRequest", id, "true")
    /\ UNCHANGED <<node_requests, rpc_endpoints, boot_nodes, beacon_nodes, sqlite_sequence>>

deleteTokenRequest(id) ==
    /\ token_requests' = {r \in token_requests : r.id # id}
    /\ Called("deleteTokenRequest", id,
              IF id \in Ids(token_requests) THEN "true" ELSE "false")
    /\ UNCHANGED <<node_requests, rpc_endpoints, boot_nodes, beacon_nodes, sqlite_sequence>>

----------------------------------------------------------------------------
(* Settings and notification *)

SettingKeys == {"smtp_host", "smtp_user", "smtp_pass", "smtp_from"}

\* what the admin saves as email settings: complete, without a host, and
\* without a sender address
SettingsInputs ==
    { [smtp_host |-> "h", smtp_user |-> "u", smtp_pass |-> "p", smtp_from |-> "f"],
      [smtp_host |-> "",  smtp_user |-> "u", smtp_pass |-> "p", smtp_from |-> "f"],
      [smtp_host |-> "h", smtp_user |-> "u", smtp_pass |-> "p", smtp_from |-> ""] }

\* what transporter.sendMail does: it resolves, or it rejects
Deliveries == {"sent", "rejected"}

getSetting(key) == JsCoalesce(settings[key], NULL)

getEmailSettings ==
    [smtp_host |-> JsOr(getSetting("smtp_host"), ""),
     smtp_user |-> JsOr(getSetting("smtp_user"), ""),
     smtp_pass |-> JsOr(getSetting("smtp_pass"), ""),
     smtp_from |-> JsOr(getSetting("smtp_from"), "")]

setEmailSettings(input) ==
    /\ settings' = [key \in SettingKeys |-> input[key]]
    /\ Called("setEmailSettings", 0, "void")
    /\ UNCHANGED <<node_requests, rpc_endpoints, boot_nodes, beacon_nodes,
                   sqlite_sequence, token_requests>>

\* the null that getTransporter returns, as a transporter
NoTransporter == [host |-> "", user |-> ""]

\* null, or a transporter for the stored host and account
getTransporter ==
    LET s == getEmailSettings IN
    IF s.smtp_host = "" \/ s.smtp_user = "" \/ s.smtp_pass = ""
    THEN NoTransporter
    ELSE [host |-> s.smtp_host, user |-> s.smtp_user]

isEmailConfigured ==
    LET s == getEmailSettings IN
    s.smtp_host # "" /\ s.smtp_user # "" /\ s.smtp_pass # "" /\ s.smtp_from # ""

\* the EmailResult of a send to address `to`, sendMail ending as `delivery`
EmailResult(to, noAddress, delivery) ==
    IF getTransporter = NoTransporter THEN "Email not configured"
    ELSE IF to = NULL \/ to = "" THEN noAddress
    ELSE IF delivery = "sent" THEN "success"
    ELSE "error"

\* no send writes a table
MailFrame ==
    UNCHANGED <<node_requests, rpc_endpoints, boot_nodes, beacon_nodes,
                sqlite_sequence, token_requests, settings>>

\* sendApprovalEmail with the rejection of sendMail left uncaught
sendApprovalEmail_Uncaught(request, delivery) ==
    /\ Called("sendApprovalEmail", request.id,
              IF getTransporter # NoTransporter /\ request.contact_email \notin {NULL, ""}
                 /\ delivery = "rejected"
              THEN "throw"
              ELSE EmailResult(request.contact_email, "No contact email provided", delivery))
    /\ MailFrame

sendApprovalEmail(request, delivery) ==
    /\ Called("sendApprovalEmail", request.id,
              EmailResult(request.contact_email, "No contact email provided", delivery))
    /\ MailFrame

sendRejectionEmail(request, delivery) ==
    /\ Called("sendRejectionEmail", request.id,
              EmailResult(request.contact_email, "No contact email provided", delivery))
    /\ MailFrame

sendTokenApprovalEmail(request, delivery) ==
    /\ Called("sendTokenApprovalEmail", request.id,
              EmailResult(request.email, "No email address provided", delivery))
    /\ MailFrame

sendTokenRejectionEmail(request, delivery) ==
    /\ Called("sendTokenRejectionEmail", request.id,
              EmailResult(request.email, "No email address provided", delivery))
    /\ MailFrame

----------------------------------------------------------------------------
(* Time, as the session manager writes and compares it *)

TicksPerDay == 2      \* clock ticks in a calendar day
MaxDays == 8          \* days the clock runs
MaxSessions == 2      \* session ids ever generated
MaxUsers == 2         \* users ever created

SessionDays == 7      \* the session lifetime of createSession
CharT == 84           \* 'T', between date and time in Date.toISOString()
CharSpace == 32       \* ' ', between date and time in SQLite's datetime('now')

MaxTime == MaxDays * TicksPerDay

\* Date.toISOString(): YYYY-MM-DD 'T' HH:MM:SS '.sssZ', as the text's
\* fields: day, separator, time of day, fraction
toISOString(t) == <<t \div TicksPerDay, CharT, t % TicksPerDay, 0>>

\* SQLite's datetime('now'): YYYY-MM-DD ' ' HH:MM:SS
datetime(t) == <<t \div TicksPerDay, CharSpace, t % TicksPerDay>>

\* the instant a stored ISO text denotes
InstantOf(text) == text[1] * TicksPerDay + text[3]

\* SQLite's a < b on two TEXT values: bytewise, a proper prefix is smaller
RECURSIVE TextLess(_, _)
TextLess(a, b) ==
    IF b = <<>> THEN FALSE
    ELSE IF a = <<>> THEN TRUE
    ELSE IF Head(a) # Head(b) THEN Head(a) < Head(b)
    ELSE TextLess(Tail(a), Tail(b))

----------------------------------------------------------------------------
(* Text.  A text is a sequence of pieces: separators such as ";", "=", ":"  *)
(* and " ", and words that hold none of them.                                *)

\* String.prototype.split(sep): the runs between separators, empty ones kept
RECURSIVE split(_, _)
split(str, sep) ==
    IF \A i \in 1..Len(str) : str[i] # sep
    THEN <<str>>
    ELSE LET i == CHOOSE k \in 1..Len(str) :
                      str[k] = sep /\ \A j \in 1..(k - 1) : str[j] # sep
         IN  <<SubSeq(str, 1, i - 1)>> \o split(SubSeq(str, i + 1, Len(str)), sep)

\* String.prototype.trim()
RECURSIVE trim(_)
trim(str) ==
    IF str = <<>> THEN str
    ELSE IF Head(str) = " " THEN trim(Tail(str))
    ELSE IF str[Len(str)] = " " THEN trim(SubSeq(str, 1, Len(str) - 1))
    ELSE str

\* Array.prototype.join(sep)
RECURSIVE join(_, _)
join(parts, sep) ==
    IF parts = <<>> THEN <<>>
    ELSE IF Len(parts) = 1 THEN parts[1]
    ELSE parts[1] \o <<sep>> \o join(Tail(parts), sep)

----------------------------------------------------------------------------
(* Credential store *)

Usernames == {"u1", "u2"}
Passwords == {"p1", "p2"}
Salts == {"s1"}

\* createHash('sha256').update(text).digest('hex'): a collision-free
\* function of the text, written as one word
sha256(text) == ToString(text)

\* the digests of the texts the model hashes
Digests ==
    {sha256(<<password>> \o salt) :
        password \in Passwords, salt \in {<<s>> : s \in Salts} \cup {<<>>}}

\* the length of digest('hex'), in characters
DigestLength == 64

\* Buffer.from(text).length: a digest is DigestLength characters, every
\* other piece is one
RECURSIVE byteLength(_)
byteLength(text) ==
    IF text = <<>> THEN 0
    ELSE (IF Head(text) \in Digests THEN DigestLength ELSE 1) + byteLength(Tail(text))

\* salt + ':' + hash
hashPassword(password, salt) == <<salt, ":", sha256(<<password, salt>>)>>

\* the salt and hash parts of a stored value: the first two ':'-separated
\* parts; the hash is undefined when there is no ':'
SaltOf(storedHash) == split(storedHash, ":")[1]
HasHash(storedHash) == Len(split(storedHash, ":")) >= 2
HashOf(storedHash) == split(storedHash, ":")[2]

\* the digest of password + salt, the salt as split returned it
InputHash(password, storedHash) == <<sha256(<<password>> \o SaltOf(storedHash))>>

\* what the try block of verifyPassword does: Buffer.from(undefined) throws,
\* timingSafeEqual throws on buffers of different lengths, and compares
\* otherwise
timingSafeEqual(password, storedHash) ==
    IF ~HasHash(storedHash) THEN "throw"
    ELSE IF byteLength(HashOf(storedHash)) # byteLength(InputHash(password, storedHash))
    THEN "throw"
    ELSE IF HashOf(storedHash) = InputHash(password, storedHash) THEN "true"
    ELSE "false"

\* verifyPassword that accepts any hash part of the right length
verifyPassword_LengthOnly(password, storedHash) ==
    timingSafeEqual(password, storedHash) \in {"true", "false"}

\* the catch block turns a throw into false
verifyPassword(password, storedHash) ==
    timingSafeEqual(password, storedHash) = "true"

\* JavaScript null, as a row
null == [id |-> -1]

getUserByUsername(username) ==
    IF \E u \in users : u.username = username
    THEN CHOOSE u \in users : u.username = username
    ELSE NoRow

getUserById(id) ==
    IF id \in Ids(users) THEN Row(users, id) ELSE NoRow

\* isFirstTimeSetup that still offers the setup while one user exists
isFirstTimeSetup_SingleUser == Cardinality(users) <= 1

isFirstTimeSetup == Cardinality(users) = 0

CalledAuth(op, id, ret) == lastAuth' = [op |-> op, id |-> id, ret |-> ret]

\* what the store does to the INSERT of createUser besides checking the
\* UNIQUE constraint: it runs it, or it fails (disk full, database locked)
InsertFaults == {"none", "insert"}

createUser(username, password, salt, fault) ==
    /\ Cardinality(users) < MaxUsers
    /\ IF fault = "insert" \/ getUserByUsername(username) # NoRow
       THEN \* the INSERT threw, UNIQUE constraint failed or any other
            \* error; caught: returns null
            /\ CalledAuth("createUser", 0, "null")
            /\ UNCHANGED users
       ELSE /\ users' = users \cup
                 {[id |-> Cardinality(users) + 1, username |-> username,
                   password_hash |-> hashPassword(password, salt)]}
            /\ CalledAuth("createUser", Cardinality(users) + 1, "row")
    /\ UNCHANGED <<sessions, now, issued>>

authenticateUser(username, password) ==
    LET user == getUserByUsername(username) IN
    IF user = NoRow THEN null
    ELSE IF ~verifyPassword(password, user.password_hash) THEN null
    ELSE user

\* updateUsername that renames without looking for the name first
updateUsername_Unchecked(userId, newUsername) ==
    /\ users' = {IF u.id = userId THEN [u EXCEPT !.username = newUsername] ELSE u
                 : u \in users}
    /\ CalledAuth("updateUsername", 0, "success")
    /\ UNCHANGED <<sessions, now, issued>>

updateUsername(userId, newUsername) ==
    LET existing == getUserByUsername(newUsername) IN
    /\ IF existing # NoRow /\ existing.id # userId
       THEN /\ CalledAuth("updateUsername", 0, "Username already exists")
            /\ UNCHANGED users
       ELSE /\ users' = {IF u.id = userId THEN [u EXCEPT !.username = newUsername] ELSE u
                         : u \in users}
            /\ CalledAuth("updateUsername", 0, "success")
    /\ UNCHANGED <<sessions, now, issued>>

\* updatePassword that does not ask for the current password
updatePassword_Unverified(userId, currentPassword, newPassword, salt) ==
    LET user == getUserById(userId) IN
    /\ IF user = NoRow
       THEN /\ CalledAuth("updatePassword", 0, "User not found")
            /\ UNCHANGED users
       ELSE /\ users' = (users \ {user}) \cup
                 {[user EXCEPT !.password_hash = hashPassword(newPassword, salt)]}
            /\ CalledAuth("updatePassword", 0, "success")
    /\ UNCHANGED <<sessions, now, issued>>

updatePassword(userId, currentPassword, newPassword, salt) ==
    LET user == getUserById(userId) IN
    /\ IF user = NoRow
       THEN /\ CalledAuth("updatePassword", 0, "User not found")
            /\ UNCHANGED users
       ELSE IF ~verifyPassword(currentPassword, user.password_hash)
       THEN /\ CalledAuth("updatePassword", 0, "Current password is incorrect")
            /\ UNCHANGED users
       ELSE /\ users' = (users \ {user}) \cup
                 {[user EXCEPT !.password_hash = hashPassword(newPassword, salt)]}
            /\ CalledAuth("updatePassword", 0, "success")
    /\ UNCHANGED <<sessions, now, issued>>

----------------------------------------------------------------------------
(* Session manager *)

\* generateSessionId that hands out an id again once its session is gone
generateSessionId_Reused ==
    ToString(CHOOSE i \in 1..(issued + 1) :
                 /\ ToString(i) \notin Ids(sessions)
                 /\ \A j \in 1..(i - 1) : ToString(j) \in Ids(sessions))

\* randomBytes(32).toString('hex'): a value no earlier call returned
generateSessionId == ToString(issued + 1)

\* the DELETE comparing instants instead of texts
CleanedUp_ByInstant(table) == {s \in table : ~(InstantOf(s.expires_at) < now)}

\* the DELETE that createSession runs after its INSERT
CleanedUp(table) == {s \in table : ~TextLess(s.expires_at, datetime(now))}

\* createSession that keeps one session per user: the user's earlier
\* sessions go when the new one is stored
createSession_SingleSession(userId) ==
    LET sessionId == generateSessionId
        expiresAt == now + SessionDays * TicksPerDay
    IN  /\ issued < MaxSessions
        /\ issued' = issued + 1
        /\ IF userId \notin Ids(users)
           THEN /\ CalledAuth("createSession", userId, "throw")
                /\ UNCHANGED sessions
           ELSE /\ sessions' = CleanedUp({s \in sessions : s.user_id # userId} \cup
                     {[id |-> sessionId, user_id |-> userId,
                       expires_at |-> toISOString(expiresAt)]})
                /\ CalledAuth("createSession", userId, sessionId)
        /\ UNCHANGED <<users, now>>

\* createSession on a store that does not enforce the foreign key
createSession_NoForeignKey(userId) ==
    LET sessionId == generateSessionId
        expiresAt == now + SessionDays * TicksPerDay
    IN  /\ issued < MaxSessions
        /\ issued' = issued + 1
        /\ sessions' = CleanedUp(sessions \cup
                 {[id |-> sessionId, user_id |-> userId,
                   expires_at |-> toISOString(expiresAt)]})
        /\ CalledAuth("createSession", userId, sessionId)
        /\ UNCHANGED <<users, now>>

createSession(userId) ==
    LET sessionId == generateSessionId
        expiresAt == now + SessionDays * TicksPerDay
    IN  /\ issued < MaxSessions
        /\ issued' = issued + 1
        /\ IF userId \notin Ids(users)
           THEN \* FOREIGN KEY constraint failed: run() throws, nothing is caught
                /\ CalledAuth("createSession", userId, "throw")
                /\ UNCHANGED sessions
           ELSE /\ sessions' = CleanedUp(sessions \cup
                     {[id |-> sessionId, user_id |-> userId,
                       expires_at |-> toISOString(expiresAt)]})
                /\ CalledAuth("createSession", userId, sessionId)
        /\ UNCHANGED <<users, now>>

getSession(sessionId) ==
    IF \E s \in sessions : s.id = sessionId /\ TextLess(datetime(now), s.expires_at)
    THEN CHOOSE s \in sessions : s.id = sessionId
    ELSE NoRow

getUserFromSession(sessionId) ==
    LET session == getSession(sessionId) IN
    IF session = NoRow THEN null ELSE getUserById(session.user_id)

\* deleteSession that reports a token without a stored session as an error
deleteSession_Strict(sessionId) ==
    /\ IF sessionId \in Ids(sessions)
       THEN /\ sessions' = {s \in sessions : s.id # sessionId}
            /\ CalledAuth("deleteSession", 0, "void")
       ELSE /\ UNCHANGED sessions
            /\ CalledAuth("deleteSession", 0, "throw")
    /\ UNCHANGED <<users, now, issued>>

deleteSession(sessionId) ==
    /\ sessions' = {s \in sessions : s.id # sessionId}
    /\ CalledAuth("deleteSession", 0, "void")
    /\ UNCHANGED <<users, now, issued>>

----------------------------------------------------------------------------
(* Cookie parsing.  A header is a sequence of pieces: the separators ";",   *)
(* "=" and " ", and words that hold none of them.                           *)

\* one [key, value] entry per ';'-separated piece of the header
CookieEntries(cookie) ==
    LET pieces == split(cookie, ";") IN
    [i \in 1..Len(pieces) |->
        LET kv == split(trim(pieces[i]), "=") IN
        [key |-> Head(kv), val |-> join(Tail(kv), "=")]]

\* cookies['session'] of Object.fromEntries(entries): the last entry with
\* that key wins; undefined, here the empty text, when there is none
SessionEntry(cookie) ==
    LET entries == CookieEntries(cookie)
        hits == {i \in 1..Len(entries) : entries[i].key = <<"session">>}
    IN  IF hits = {} THEN <<>>
        ELSE entries[CHOOSE i \in hits : \A j \in hits : j <= i].val

\* the header of a request that carries no Cookie header
NoCookie == <<NULL>>

validateSessionCookie(cookie) ==
    IF cookie = NoCookie \/ cookie = <<>> THEN null
    ELSE LET sessionId == SessionEntry(cookie) IN
         IF sessionId = <<>> THEN null
         ELSE IF Len(sessionId) = 1 THEN getUserFromSession(sessionId[1])
         ELSE \* a text that is no generated id: no row has it
              null

\* time passes
Tick ==
    /\ now < MaxTime
    /\ now' = now + 1
    /\ lastAuth' = [op |-> "tick", id |-> 0, ret |-> "none"]
    /\ UNCHANGED <<users, sessions, issued>>
    /\ UNCHANGED dataVars
    /\ UNCHANGED mailVars
    /\ UNCHANGED tokenVars

----------------------------------------------------------------------------
(* The workflow as a state machine *)

RequestIds == Ids(node_requests) \cup {0}

InitData ==
    /\ node_requests = {}
    /\ rpc_endpoints = {}
    /\ boot_nodes = {}
    /\ beacon_nodes = {}
    /\ sqlite_sequence = [node_requests |-> 0, rpc_endpoints |-> 0,
                          boot_nodes |-> 0, beacon_nodes |-> 0, token_requests |-> 0]
    /\ last = [op |-> "init", id |-> 0, ret |-> "none"]
    /\ token_requests = {}
    /\ settings = [key \in SettingKeys |-> NULL]

InitAuth ==
    /\ users = {}
    /\ sessions = {}
    /\ now = 0
    /\ issued = 0
    /\ lastAuth = [op |-> "init", id |-> 0, ret |-> "none"]

Init == InitData /\ InitAuth

Create ==
    /\ \E data \in Payloads : \E tid \in generateTrackingId : createNodeRequest(data, tid)
    /\ UNCHANGED authVars
    /\ UNCHANGED mailVars
    /\ UNCHANGED tokenVars

\* the admin decides without notes
UpdateStatus ==
    /\ \E id \in RequestIds, status \in Statuses : updateNodeRequestStatus(id, status, NULL)
    /\ UNCHANGED authVars
    /\ UNCHANGED mailVars
    /\ UNCHANGED tokenVars

DeleteRequest ==
    /\ \E id \in RequestIds : deleteNodeRequest(id)
    /\ UNCHANGED authVars
    /\ UNCHANGED mailVars
    /\ UNCHANGED tokenVars

Approve ==
    /\ \E id \in RequestIds, fault \in StorageFaults : approveAndCreateNode(id, fault)
    /\ UNCHANGED authVars
    /\ UNCHANGED mailVars
    /\ UNCHANGED tokenVars

CreateRpc ==
    /\ \E data \in RpcInputs : createRpcEndpoint(data)
    /\ UNCHANGED authVars
    /\ UNCHANGED mailVars
    /\ UNCHANGED tokenVars

CreateBoot ==
    /\ \E data \in BootInputs : createBootNode(data)
    /\ UNCHANGED authVars
    /\ UNCHANGED mailVars
    /\ UNCHANGED tokenVars

CreateBeacon ==
    /\ \E data \in BeaconInputs : createBeaconNode(data)
    /\ UNCHANGED authVars
    /\ UNCHANGED mailVars
    /\ UNCHANGED tokenVars

Next ==
    \/ Create
    \/ UpdateStatus
    \/ DeleteRequest
    \/ Approve
    \/ CreateRpc
    \/ CreateBoot
    \/ CreateBeacon

Spec == Init /\ [][Next]_vars


----------------------------------------------------------------------------
(* The workflow where a submission is stored only after the duplicate check *)

SubmitNodeRequest(data, trackingId) ==
    /\ ~isEndpointDuplicate(data.endpoint, data.node_type).exists
    /\ createNodeRequest(data, trackingId)

Submit ==
    /\ \E data \in Payloads : \E tid \in generateTrackingId : SubmitNodeRequest(data, tid)
    /\ UNCHANGED authVars
    /\ UNCHANGED mailVars
    /\ UNCHANGED tokenVars

GuardedNext ==
    \/ Submit
    \/ UpdateStatus
    \/ DeleteRequest
    \/ Approve
    \/ CreateRpc
    \/ CreateBoot
    \/ CreateBeacon

GuardedSpec == Init /\ [][GuardedNext]_vars

----------------------------------------------------------------------------
(* Both request ledgers as one state machine; MaxRequests bounds the rows   *)
(* of the two ledgers together                                               *)

TokenIds == Ids(token_requests) \cup {0}

RequestsInserted == sqlite_sequence.node_requests + sqlite_sequence.token_requests

CreateNode ==
    /\ RequestsInserted < MaxRequests
    /\ Create

CreateToken ==
    /\ RequestsInserted < MaxRequests
    /\ \E data \in TokenPayloads : \E tid \in generateTokenTrackingId :
          createTokenRequest(data, tid)
    /\ UNCHANGED authVars
    /\ UNCHANGED mailVars

\* the admin decides without notes, with or without an amount
UpdateTokenStatus ==
    /\ \E id \in TokenIds, status \in TokenStatuses, amount \in TransferredAmounts :
          updateTokenRequestStatus(id, status, NULL, amount)
    /\ UNCHANGED authVars
    /\ UNCHANGED mailVars

\* the admin moves a token request without giving an amount
MoveToken ==
    /\ \E id \in TokenIds, status \in TokenStatuses :
          updateTokenRequestStatus(id, status, NULL, NULL)
    /\ UNCHANGED authVars
    /\ UNCHANGED mailVars

DeleteToken ==
    /\ \E id \in TokenIds : deleteTokenRequest(id)
    /\ UNCHANGED authVars
    /\ UNCHANGED mailVars

LedgerNext ==
    \/ CreateNode
    \/ UpdateStatus
    \/ DeleteRequest
    \/ Approve
    \/ CreateToken
    \/ MoveToken
    \/ DeleteToken

LedgerSpec == Init /\ [][LedgerNext]_vars

----------------------------------------------------------------------------
(* The token ledger next to the directory's admin surface *)

TokenNext ==
    \/ CreateToken
    \/ UpdateTokenStatus
    \/ DeleteToken
    \/ CreateRpc

TokenSpec == Init /\ [][TokenNext]_vars

----------------------------------------------------------------------------
(* Decisions and their notifications as a state machine *)

\* the admin approves or rejects a node request
Decide ==
    /\ \E id \in Ids(node_requests), status \in {"approved", "rejected"} :
          updateNodeRequestStatus(id, status, NULL)
    /\ UNCHANGED authVars
    /\ UNCHANGED tokenVars
    /\ UNCHANGED mailVars

\* the admin confirms the transfer for a token request, or rejects it
DecideToken ==
    /\ \/ \E id \in Ids(token_requests) :
             updateTokenRequestStatus(id, "transferred", NULL, "a1")
       \/ \E id \in Ids(token_requests) :
             updateTokenRequestStatus(id, "rejected", NULL, NULL)
    /\ UNCHANGED authVars
    /\ UNCHANGED mailVars

SetEmailSettings ==
    /\ \E input \in SettingsInputs : setEmailSettings(input)
    /\ UNCHANGED authVars

SendApproval ==
    /\ \E request \in node_requests, delivery \in Deliveries :
          sendApprovalEmail(request, delivery)
    /\ UNCHANGED authVars

SendRejection ==
    /\ \E request \in node_requests, delivery \in Deliveries :
          sendRejectionEmail(request, delivery)
    /\ UNCHANGED authVars

SendTokenApproval ==
    /\ \E request \in token_requests, delivery \in Deliveries :
          sendTokenApprovalEmail(request, delivery)
    /\ UNCHANGED authVars

SendTokenRejection ==
    /\ \E request \in token_requests, delivery \in Deliveries :
          sendTokenRejectionEmail(request, delivery)
    /\ UNCHANGED authVars

MailNext ==
    \/ CreateNode
    \/ CreateToken
    \/ Decide
    \/ DecideToken
    \/ SetEmailSettings
    \/ SendApproval
    \/ SendRejection
    \/ SendTokenApproval
    \/ SendTokenRejection

MailSpec == Init /\ [][MailNext]_vars

----------------------------------------------------------------------------
(* Users, sessions and the clock as a state machine *)

UserIds == Ids(users) \cup {0}
SessionIds == {ToString(i) : i \in 1..issued} \cup {"x"}

CreateUser ==
    /\ \E username \in Usernames, salt \in Salts, fault \in InsertFaults :
          createUser(username, "p1", salt, fault)
    /\ UNCHANGED dataVars
    /\ UNCHANGED mailVars
    /\ UNCHANGED tokenVars

UpdateUsername ==
    /\ \E userId \in UserIds, username \in Usernames : updateUsername(userId, username)
    /\ UNCHANGED dataVars
    /\ UNCHANGED mailVars
    /\ UNCHANGED tokenVars

\* the password is re-set to the one createUser gave: a right and a wrong
\* current password are both tried
UpdatePassword ==
    /\ \E userId \in UserIds, current \in Passwords, salt \in Salts :
          updatePassword(userId, current, "p1", salt)
    /\ UNCHANGED dataVars
    /\ UNCHANGED mailVars
    /\ UNCHANGED tokenVars

CreateSession ==
    /\ \E userId \in UserIds : createSession(userId)
    /\ UNCHANGED dataVars
    /\ UNCHANGED mailVars
    /\ UNCHANGED tokenVars

DeleteSession ==
    /\ \E sessionId \in SessionIds : deleteSession(sessionId)
    /\ UNCHANGED dataVars
    /\ UNCHANGED mailVars
    /\ UNCHANGED tokenVars

AuthNext ==
    \/ CreateUser
    \/ UpdateUsername
    \/ UpdatePassword
    \/ CreateSession
    \/ DeleteSession
    \/ Tick

AuthSpec == Init /\ [][AuthNext]_vars

----------------------------------------------------------------------------
(* Accounts and their passwords as a state machine *)

\* a login attempt; what it returned is recorded
Authenticate ==
    /\ \E username \in Usernames, password \in Passwords :
          LET user == authenticateUser(username, password) IN
          CalledAuth("authenticateUser", IF user = null THEN 0 ELSE user.id,
                     IF user = null THEN "null" ELSE "user")
    /\ UNCHANGED <<users, sessions, now, issued>>
    /\ UNCHANGED dataVars
    /\ UNCHANGED tokenVars
    /\ UNCHANGED mailVars

\* a user changes the password to any other
ChangePassword ==
    /\ \E userId \in UserIds, current \in Passwords, new \in Passwords, salt \in Salts :
          updatePassword(userId, current, new, salt)
    /\ UNCHANGED dataVars
    /\ UNCHANGED tokenVars
    /\ UNCHANGED mailVars

CredentialNext ==
    \/ CreateUser
    \/ UpdateUsername
    \/ ChangePassword
    \/ Authenticate
    \/ CreateSession

CredentialSpec == Init /\ [][CredentialNext]_vars

----------------------------------------------------------------------------
(* The directory maintained next to the requests it was filled from *)

UpdateRpc ==
    /\ \E id \in Ids(rpc_endpoints) \cup {0}, data \in RpcUpdates : updateRpcEndpoint(id, data)
    /\ UNCHANGED authVars
    /\ UNCHANGED mailVars
    /\ UNCHANGED tokenVars

DeleteRpc ==
    /\ \E id \in Ids(rpc_endpoints) \cup {0} : deleteRpcEndpoint(id)
    /\ UNCHANGED authVars
    /\ UNCHANGED mailVars
    /\ UNCHANGED tokenVars

UpdateBoot ==
    /\ \E id \in Ids(boot_nodes) \cup {0}, data \in BootUpdates : updateBootNode(id, data)
    /\ UNCHANGED authVars
    /\ UNCHANGED mailVars
    /\ UNCHANGED tokenVars

DeleteBoot ==
    /\ \E id \in Ids(boot_nodes) \cup {0} : deleteBootNode(id)
    /\ UNCHANGED authVars
    /\ UNCHANGED mailVars
    /\ UNCHANGED tokenVars

UpdateBeacon ==
    /\ \E id \in Ids(beacon_nodes) \cup {0}, data \in BeaconUpdates : updateBeaconNode(id, data)
    /\ UNCHANGED authVars
    /\ UNCHANGED mailVars
    /\ UNCHANGED tokenVars

DeleteBeacon ==
    /\ \E id \in Ids(beacon_nodes) \cup {0} : deleteBeaconNode(id)
    /\ UNCHANGED authVars
    /\ UNCHANGED mailVars
    /\ UNCHANGED tokenVars

\* a submission for one of the three directories
SubmitListed ==
    /\ \E data \in {p \in Payloads : p.node_type \in DirectoryTypes} :
          \E tid \in generateTrackingId : createNodeRequest(data, tid)
    /\ UNCHANGED authVars
    /\ UNCHANGED mailVars
    /\ UNCHANGED tokenVars

\* an approval whose two writes both succeed
ApproveStored ==
    /\ \E id \in Ids(node_requests) : approveAndCreateNode(id, "none")
    /\ UNCHANGED authVars
    /\ UNCHANGED mailVars
    /\ UNCHANGED tokenVars

ListingNext ==
    \/ SubmitListed
    \/ UpdateStatus
    \/ DeleteRequest
    \/ ApproveStored
    \/ UpdateRpc
    \/ DeleteRpc
    \/ UpdateBoot
    \/ DeleteBoot
    \/ UpdateBeacon
    \/ DeleteBeacon

ListingSpec == Init /\ [][ListingNext]_vars

----------------------------------------------------------------------------
(* The review of node requests with admin notes *)

\* the admin sets a status, with or without notes
Review ==
    /\ \E id \in RequestIds, status \in Statuses, adminNotes \in AdminNotes :
          updateNodeRequestStatus(id, status, adminNotes)
    /\ UNCHANGED authVars
    /\ UNCHANGED mailVars
    /\ UNCHANGED tokenVars

\* a submission for the RPC directory
SubmitRpc ==
    /\ \E data \in {p \in Payloads : p.node_type = "rpc"} :
          \E tid \in generateTrackingId : createNodeRequest(data, tid)
    /\ UNCHANGED authVars
    /\ UNCHANGED mailVars
    /\ UNCHANGED tokenVars

NotesNext ==
    \/ SubmitRpc
    \/ Review
    \/ ApproveStored
    \/ DeleteRequest

NotesSpec == Init /\ [][NotesNext]_vars

----------------------------------------------------------------------------
(* Claims about the submission review workflow *)

\* the row of a listing table that one INSERT added in this step
AddedOne(table, tableNext, n) ==
    /\ n \in tableNext
    /\ n.id \notin Ids(table)
    /\ tableNext = table \cup {n}

\* the natural key of a listing of each directory table
Listed(nodeType, endpoint) ==
    \/ nodeType = "rpc" /\ \E n \in rpc_endpoints : n.endpoint = endpoint
    \/ nodeType = "bootnode" /\ \E n \in boot_nodes : n.enode = endpoint
    \/ nodeType = "beacon" /\ \E n \in beacon_nodes : n.enr = endpoint \/ n.endpoint = endpoint

DirectoryLocation(nodeType) ==
    IF nodeType = "rpc" THEN "RPC endpoints"
    ELSE IF nodeType = "bootnode" THEN "Boot nodes"
    ELSE "Beacon nodes"

\* C1: the status of a node request changes only from pending to approved or
\* from pending to rejected; a request that is approved or rejected keeps
\* that status in every later state.
C1_DecidedIsTerminal ==
    [][\A r \in node_requests : \A r2 \in node_requests' :
          r2.id = r.id =>
              \/ r2.status = r.status
              \/ r.status = "pending" /\ r2.status \in {"approved", "rejected"}]_vars

\* C3: approveAndCreateNode on a pending request of one of the three node
\* types, the store failing neither write, returns success, sets the status
\* to approved and adds exactly one row, with the mapped fields, to the
\* table of that node type and none to the other two.
C3_ApprovalMaterializes ==
    [][\A r \in node_requests :
          ( /\ last'.op = "approveAndCreateNode"
            /\ last'.id = r.id
            /\ last'.ret # "error"
            /\ r.status = "pending"
            /\ r.node_type \in DirectoryTypes )
          =>
          ( /\ last'.ret = "success"
            /\ \E r2 \in node_requests' : r2.id = r.id /\ r2.status = "approved"
            /\ r.node_type = "rpc" =>
                 /\ \E n \in rpc_endpoints' :
                       /\ AddedOne(rpc_endpoints, rpc_endpoints', n)
                       /\ n.name = r.name /\ n.endpoint = r.endpoint /\ n.type = "community"
                 /\ boot_nodes' = boot_nodes /\ beacon_nodes' = beacon_nodes
            /\ r.node_type = "bootnode" =>
                 /\ \E n \in boot_nodes' :
                       /\ AddedOne(boot_nodes, boot_nodes', n)
                       /\ n.name = r.name /\ n.enode = r.endpoint
                 /\ rpc_endpoints' = rpc_endpoints /\ beacon_nodes' = beacon_nodes
            /\ r.node_type = "beacon" =>
                 /\ \E n \in beacon_nodes' :
                       /\ AddedOne(beacon_nodes, beacon_nodes', n)
                       /\ n.name = r.name /\ n.enr = r.endpoint
                 /\ rpc_endpoints' = rpc_endpoints /\ boot_nodes' = boot_nodes )]_vars

\* C3 witness: a boot node request has just been approved and its listing
\* carries the request's endpoint as enode.
C3_Witness ==
    /\ last.op = "approveAndCreateNode"
    /\ last.ret = "success"
    /\ \E r \in node_requests :
          /\ r.id = last.id
          /\ r.node_type = "bootnode"
          /\ r.status = "approved"
          /\ \E n \in boot_nodes : n.enode = r.endpoint /\ n.name = r.name

\* C4: approveAndCreateNode is all-or-nothing: when it does not return
\* success no request and no directory table has changed, and when it
\* returns success for a request of one of the three node types the listing
\* row has been inserted and the status is approved.
C4_ApproveAllOrNothing ==
    [][last'.op = "approveAndCreateNode" =>
          /\ last'.ret # "success" =>
                UNCHANGED <<node_requests, rpc_endpoints, boot_nodes, beacon_nodes>>
          /\ \A r \in node_requests :
                (last'.ret = "success" /\ last'.id = r.id /\ r.node_type \in DirectoryTypes)
                =>
                /\ \E r2 \in node_requests' : r2.id = r.id /\ r2.status = "approved"
                /\ DirectoryInserts' = DirectoryInserts + 1]_vars

\* C5: isEndpointDuplicate reports a duplicate exactly when a request with
\* that endpoint is not rejected or the table of the node type holds a
\* listing whose natural key is the endpoint.
C5_DuplicateIffMatch ==
    \A endpoint \in Endpoints, nodeType \in DirectoryTypes :
        isEndpointDuplicate(endpoint, nodeType).exists
        <=> \/ \E r \in node_requests : r.endpoint = endpoint /\ r.status # "rejected"
            \/ Listed(nodeType, endpoint)

\* a request with this endpoint is pending
PendingFor(endpoint) ==
    \E r \in node_requests : r.endpoint = endpoint /\ r.status = "pending"

\* requests with this endpoint are stored, and all of them are rejected
OnlyRejectedFor(endpoint) ==
    /\ \E r \in node_requests : r.endpoint = endpoint
    /\ \A r \in node_requests : r.endpoint = endpoint => r.status = "rejected"

\* C6, as first stated: a pending request makes a further submission of its
\* endpoint a duplicate; once the requests for an endpoint are rejected, and
\* it is not listed, a submission is accepted; after approveAndCreateNode
\* has approved and listed a request, the duplicate result names the
\* directory table.
C6_DuplicateOrdering ==
    /\ \A endpoint \in Endpoints, nodeType \in NodeTypes :
          PendingFor(endpoint) => isEndpointDuplicate(endpoint, nodeType).exists
    /\ \A endpoint \in Endpoints, nodeType \in NodeTypes :
          (OnlyRejectedFor(endpoint) /\ ~Listed(nodeType, endpoint))
              => ~isEndpointDuplicate(endpoint, nodeType).exists
    /\ \A r \in node_requests :
          ( /\ last.op = "approveAndCreateNode" /\ last.ret = "success" /\ last.id = r.id
            /\ r.status = "approved" /\ r.node_type \in DirectoryTypes )
          => isEndpointDuplicate(r.endpoint, r.node_type) =
                 [exists |-> TRUE, location |-> DirectoryLocation(r.node_type)]

\* C6, amended: as above, but while the approved request is stored the
\* duplicate result names the request surface, 'pending request', which is
\* checked before the directory table.
C6_DuplicateOrderingAmended ==
    /\ \A endpoint \in Endpoints, nodeType \in NodeTypes :
          PendingFor(endpoint) => isEndpointDuplicate(endpoint, nodeType).exists
    /\ \A endpoint \in Endpoints, nodeType \in NodeTypes :
          (OnlyRejectedFor(endpoint) /\ ~Listed(nodeType, endpoint))
              => ~isEndpointDuplicate(endpoint, nodeType).exists
    /\ \A r \in node_requests :
          r.status = "approved"
          => isEndpointDuplicate(r.endpoint, r.node_type) =
                 [exists |-> TRUE, location |-> "pending request"]

\* C6 witness: an rpc request has just been approved, its endpoint is
\* listed in rpc_endpoints, and a rejected request for another endpoint is
\* stored whose endpoint may be submitted again.
C6_Witness ==
    /\ last.op = "approveAndCreateNode"
    /\ last.ret = "success"
    /\ \E r \in node_requests :
          /\ r.id = last.id
          /\ r.node_type = "rpc"
          /\ r.status = "approved"
          /\ Listed("rpc", r.endpoint)
          /\ isEndpointDuplicate(r.endpoint, "rpc").location = "pending request"
    /\ \E r \in node_requests :
          /\ r.status = "rejected"
          /\ OnlyRejectedFor(r.endpoint)
          /\ ~isEndpointDuplicate(r.endpoint, r.node_type).exists

\* C7: when requests are stored only after the duplicate check found
\* nothing, no two stored requests with the same endpoint are both pending
\* or approved.
C7_OneLiveRequestPerEndpoint ==
    \A r1 \in node_requests, r2 \in node_requests :
        (r1.id # r2.id /\ r1.endpoint = r2.endpoint)
            => (r1.status = "rejected" \/ r2.status = "rejected")

----------------------------------------------------------------------------
(* Claims about sessions *)

\* the session's expiry is strictly later than the clock / already passed
ExpiresLater(s) == InstantOf(s.expires_at) > now
HasExpired(s) == InstantOf(s.expires_at) < now

\* C2: a stored session passes getSession when its expires_at is later than
\* the clock and fails it when its expires_at has passed, also on the
\* calendar day of expires_at.
C2_ValidIffUnexpired ==
    \A s \in sessions :
        /\ ExpiresLater(s) => getSession(s.id) = s
        /\ HasExpired(s) => getSession(s.id) = NoRow

\* Cookie headers, each with the session id it carries ("" for none)
CookieCases(token) ==
    { [header |-> NoCookie, token |-> ""],
      [header |-> <<>>, token |-> ""],
      [header |-> <<"other", "=", token>>, token |-> ""],
      [header |-> <<"session">>, token |-> ""],
      [header |-> <<"session", "=">>, token |-> ""],
      [header |-> <<"session", "=", token, ";", " ", "session", "=">>, token |-> ""],
      [header |-> <<";", "=", ";", " ">>, token |-> ""],
      [header |-> <<"session", " ", "=", token>>, token |-> ""],
      [header |-> <<"session", "=", token>>, token |-> token],
      [header |-> <<" ", "session", "=", token, " ">>, token |-> token],
      [header |-> <<"other", "=", "v", ";", " ", "session", "=", token, ";">>,
       token |-> token] }

\* C8: validation fails closed.  A cookie header yields a user only when it
\* carries the id of a stored session that has not expired, and then that
\* session's user; an absent or malformed header, one without a session
\* value, an unknown id, an expired or a deleted session all yield null.
C8_FailsClosed ==
    \A token \in SessionIds : \A c \in CookieCases(token) :
        LET user == validateSessionCookie(c.header)
            stored == {s \in sessions : s.id = c.token}
        IN  /\ user # null =>
                \E s \in stored : ~HasExpired(s) /\ user = getUserById(s.user_id)
            /\ (\E s \in stored : ExpiresLater(s)) => user # null
            /\ getUserFromSession(token) # null =>
                \E s \in sessions :
                    s.id = token /\ ~HasExpired(s) /\ getUserFromSession(token) = getUserById(s.user_id)

\* C9: after createSession(userId) returns, the store holds the new session
\* for userId, expiring exactly SessionDays after the call, holds no
\* session whose expiry has passed, and every session that expires later
\* than the call is still stored unchanged.
C9_CreateSessionCleansUp ==
    [][(lastAuth'.op = "createSession" /\ lastAuth'.ret # "throw" /\ issued' # issued) =>
          /\ \E s \in sessions' :
                /\ s.id = lastAuth'.ret
                /\ s.id \notin Ids(sessions)
                /\ s.user_id = lastAuth'.id
                /\ InstantOf(s.expires_at) = now + SessionDays * TicksPerDay
          /\ \A s \in sessions' : ~(InstantOf(s.expires_at) < now)
          /\ \A s \in sessions : ExpiresLater(s) => s \in sessions']_vars

\* C10: an issued session id that fails validation never validates again,
\* and a stored session keeps its user_id and expires_at for as long as it
\* is stored.
C10_SessionLifecycle ==
    [][/\ \A i \in 1..issued :
             getUserFromSession(ToString(i)) = null
                 => getUserFromSession(ToString(i))' = null
       /\ \A s \in sessions : \A s2 \in sessions' : s2.id = s.id => s2 = s]_vars

\* C10 witness: one issued session is stored but fails validation because
\* it expired, another was deleted and fails validation too.
C10_Witness ==
    /\ \E s \in sessions : getUserFromSession(s.id) = null
    /\ \E i \in 1..issued :
          /\ ToString(i) \notin Ids(sessions)
          /\ getUserFromSession(ToString(i)) = null

\* C11: createSession(u) and deleteSession(t) leave every other session as
\* it was.  After createSession each earlier session validates as it did
\* before, and one that has not expired is still stored; after
\* deleteSession(t) every session with another id is still stored, and
\* every id other than t validates as it did before.
C11_OtherSessionsKept ==
    [][/\ \A u \in UserIds : createSession(u) =>
             \A s \in sessions :
                 /\ getUserFromSession(s.id)' = getUserFromSession(s.id)
                 /\ ~HasExpired(s) => s \in sessions'
       /\ \A t \in SessionIds : deleteSession(t) =>
             /\ \A s \in sessions : s.id # t => s \in sessions'
             /\ \A i \in SessionIds \ {t} :
                   getUserFromSession(i)' = getUserFromSession(i)]_vars

\* C11 witness: createSession has just returned and its user holds two
\* sessions that both validate.
C11_Witness ==
    /\ lastAuth.op = "createSession"
    /\ \E s1, s2 \in sessions :
          /\ s1.id # s2.id
          /\ s1.user_id = s2.user_id
          /\ s2.id = lastAuth.ret
          /\ getUserFromSession(s1.id) # null
          /\ getUserFromSession(s2.id) # null

\* C12: deleteSession(t) is idempotent.  For a token without a stored
\* session it returns normally and changes nothing; after any call no
\* session with id t is stored, so a second call in a row is such a call
\* and leaves the store as the first one left it.
C12_DeleteSessionIdempotent ==
    [][\A t \in SessionIds : deleteSession(t) =>
          /\ t \notin Ids(sessions')
          /\ lastAuth'.ret = "void"
          /\ t \notin Ids(sessions) => UNCHANGED <<users, sessions, now, issued>>]_vars

\* C12 witness: deleteSession has just returned, tokens were issued and none
\* of them has a stored session: any further deleteSession is a repeat.
C12_Witness ==
    /\ lastAuth.op = "deleteSession"
    /\ issued = MaxSessions
    /\ sessions = {}

----------------------------------------------------------------------------
(* Claims about the two request ledgers *)

UpperHexChars == {"0", "1", "2", "3", "4", "5", "6", "7", "8", "9",
                  "A", "B", "C", "D", "E", "F"}

\* text is prefix followed by 8 uppercase hexadecimal characters
HasTrackingForm(text, prefix) ==
    /\ Len(text) = Len(prefix) + 8
    /\ SubSeq(text, 1, Len(prefix)) = prefix
    /\ \A i \in (Len(prefix) + 1)..Len(text) : text[i] \in UpperHexChars

\* C13: the request createNodeRequest returns is pending, its tracking id
\* is REQ- and 8 uppercase hex characters, and getNodeRequestByTrackingId
\* finds it by that id; the same for createTokenRequest with TKN- and
\* getTokenRequestByTrackingId; whatever status the payload carried.
C13_CreatedPendingAndTracked ==
    [][/\ (last'.op = "createNodeRequest" /\ last'.ret = "row") =>
             LET r == Row(node_requests', last'.id) IN
             /\ r \notin node_requests
             /\ r.status = "pending"
             /\ HasTrackingForm(r.tracking_id, ReqPrefix)
             /\ \E t \in TrackingIds' : t = r.tracking_id /\ getNodeRequestByTrackingId(t)' = r
       /\ (last'.op = "createTokenRequest" /\ last'.ret = "row") =>
             LET r == Row(token_requests', last'.id) IN
             /\ r \notin token_requests
             /\ r.status = "pending"
             /\ HasTrackingForm(r.tracking_id, TknPrefix)
             /\ \E t \in TokenTrackingIds' :
                   t = r.tracking_id /\ getTokenRequestByTrackingId(t)' = r]_vars

\* C13 witness: createTokenRequest has just returned a request and a node
\* request is stored too; both were submitted with a status of their own.
C13_Witness ==
    /\ last.op = "createTokenRequest"
    /\ last.ret = "row"
    /\ getTokenRequestById(last.id).email = "m1"
    /\ getTokenRequestById(last.id).status = "pending"
    /\ \E r \in node_requests : r.node_type = "rpc" /\ r.status = "pending"

\* C14: a token request changes status only from pending to approved, from
\* approved to transferred and from pending to rejected; so rejected and
\* transferred are never left, and transferred is entered only from approved.
C14_TokenTransitions ==
    [][\A r \in token_requests : \A r2 \in token_requests' :
          (r2.id = r.id /\ r2.status # r.status) =>
              <<r.status, r2.status>> \in
                  { <<"pending", "approved">>, <<"approved", "transferred">>,
                    <<"pending", "rejected">> }]_vars

\* what an updateTokenRequestStatus step leaves alone: the directory
\* tables, and every token request but the one with the id
TokenUpdateFrame(id) ==
    /\ UNCHANGED <<rpc_endpoints, boot_nodes, beacon_nodes>>
    /\ \A r \in token_requests : r.id # id => r \in token_requests'
    /\ Ids(token_requests') = Ids(token_requests)
    /\ \A r \in token_requests : \A r2 \in token_requests' :
          r2.id = r.id => r2.requested_amount = r.requested_amount

\* C15 as stated: updateTokenRequestStatus changes no directory table, no
\* other token request and no requested_amount, and a move to transferred
\* with any amount text a stores transferred_amount = a.
C15_TransferredAmountStored ==
    [][last'.op = "updateTokenRequestStatus" =>
        \A id \in {i \in TokenIds : i = last'.id} :
        \A status \in TokenStatuses, a \in TransferredAmounts :
          updateTokenRequestStatus(id, status, NULL, a) =>
              /\ TokenUpdateFrame(id)
              /\ (id \in Ids(token_requests) /\ status = "transferred" /\ a # NULL) =>
                    Row(token_requests', id).transferred_amount = a]_vars

\* C15 amended: the same, for an amount text a that is not empty.
C15_TransferredAmountStoredAmended ==
    [][last'.op = "updateTokenRequestStatus" =>
        \A id \in {i \in TokenIds : i = last'.id} :
        \A status \in TokenStatuses, a \in TransferredAmounts :
          updateTokenRequestStatus(id, status, NULL, a) =>
              /\ TokenUpdateFrame(id)
              /\ (id \in Ids(token_requests) /\ status = "transferred" /\ a \notin {NULL, ""}) =>
                    Row(token_requests', id).transferred_amount = a]_vars

\* C15 witness: a token request has just been moved to transferred with an
\* amount other than the requested one, while the directory holds a listing.
C15_Witness ==
    /\ last.op = "updateTokenRequestStatus"
    /\ last.ret = "row"
    /\ LET r == getTokenRequestById(last.id) IN
          /\ r.status = "transferred"
          /\ r.transferred_amount = "a1"
          /\ r.requested_amount = "a2"
    /\ rpc_endpoints \cup boot_nodes \cup beacon_nodes # {}

----------------------------------------------------------------------------
(* Claims about notification *)

NodeSendOps == {"sendApprovalEmail", "sendRejectionEmail"}
TokenSendOps == {"sendTokenApprovalEmail", "sendTokenRejectionEmail"}

\* the values an EmailResult takes: success, or failure with an error text
EmailResults ==
    {"success", "Email not configured", "No contact email provided",
     "No email address provided", "error"}

\* C16: each of the four sends completes with an EmailResult, never with an
\* exception: a failure with its error text when SMTP is not configured,
\* when the request has no recipient address and when sendMail fails,
\* success otherwise; and it leaves every stored row, the request's status
\* included, as it was.
C16_NotificationIsolated ==
    [][last'.op \in NodeSendOps \cup TokenSendOps =>
          LET to == IF last'.op \in NodeSendOps
                    THEN getNodeRequestById(last'.id).contact_email
                    ELSE getTokenRequestById(last'.id).email
          IN  /\ last'.ret \in EmailResults
              /\ getTransporter = NoTransporter => last'.ret = "Email not configured"
              /\ (getTransporter # NoTransporter /\ to = "") =>
                    last'.ret = IF last'.op \in NodeSendOps
                                THEN "No contact email provided"
                                ELSE "No email address provided"
              /\ last'.ret = "success" => (getTransporter # NoTransporter /\ to # "")
              /\ UNCHANGED <<node_requests, token_requests, rpc_endpoints, boot_nodes,
                             beacon_nodes, sqlite_sequence, settings, users, sessions>>]_vars

\* C16 witness: SMTP is configured, the approved request has an address, and
\* sendApprovalEmail has just reported that sending failed.
C16_Witness ==
    /\ last.op = "sendApprovalEmail"
    /\ last.ret = "error"
    /\ getTransporter # NoTransporter
    /\ getNodeRequestById(last.id).status = "approved"
    /\ getNodeRequestById(last.id).contact_email = "m1"

----------------------------------------------------------------------------
(* Claims about errors and absence *)

\* C17: no mutating operation lets a storage error reach its caller as an
\* exception: whatever the store refuses, the call returns a result.
C17_StorageErrorsStructured ==
    /\ last.ret # "throw"
    /\ lastAuth.ret # "throw"

\* every table of the store is as it was
StoreUnchanged ==
    UNCHANGED <<node_requests, token_requests, rpc_endpoints, boot_nodes, beacon_nodes,
                sqlite_sequence, settings, users, sessions>>

\* ids that no stored request has; tracking ids that no stored request
\* has: those of the other ledger, the empty text and the bare prefix
UnknownIds(table) == (0..(MaxRequests + 1)) \ Ids(table)
UnknownTrackingIds(stored, others, prefix) == (others \cup {<<>>, prefix}) \ stored

\* C18: a call addressed to an id or tracking id that no stored request has
\* reports absence and changes no table: the four lookups return the
\* absence value, updateNodeRequestStatus and updateTokenRequestStatus
\* return null, deleteNodeRequest and deleteTokenRequest return false,
\* approveAndCreateNode returns 'Request not found'.
C18_UnknownIdsReportAbsence ==
    [][/\ \A id \in UnknownIds(node_requests) : getNodeRequestById(id) = NoRow
       /\ \A id \in UnknownIds(token_requests) : getTokenRequestById(id) = NoRow
       /\ \A t \in UnknownTrackingIds(TrackingIds, TokenTrackingIds, ReqPrefix) :
             getNodeRequestByTrackingId(t) = NoRow
       /\ \A t \in UnknownTrackingIds(TokenTrackingIds, TrackingIds, TknPrefix) :
             getTokenRequestByTrackingId(t) = NoRow
       /\ (last'.op \in {"updateNodeRequestStatus", "deleteNodeRequest", "approveAndCreateNode"}
             /\ last'.id \notin Ids(node_requests)) =>
                /\ StoreUnchanged
                /\ last'.ret = CASE last'.op = "updateNodeRequestStatus" -> "null"
                                 [] last'.op = "deleteNodeRequest" -> "false"
                                 [] last'.op = "approveAndCreateNode" -> "Request not found"
       /\ (last'.op \in {"updateTokenRequestStatus", "deleteTokenRequest"}
             /\ last'.id \notin Ids(token_requests)) =>
                /\ StoreUnchanged
                /\ last'.ret = CASE last'.op = "updateTokenRequestStatus" -> "null"
                                 [] last'.op = "deleteTokenRequest" -> "false"]_vars

\* C18 witness: approveAndCreateNode has just been called for an id that no
\* request has, while a node request and a token request are stored.
C18_Witness ==
    /\ last.op = "approveAndCreateNode"
    /\ last.id \notin Ids(node_requests)
    /\ last.ret = "Request not found"
    /\ node_requests # {}
    /\ token_requests # {}

----------------------------------------------------------------------------
(* Claims about users *)

\* C19: isFirstTimeSetup() is true exactly when the users table is empty;
\* a successful createUser makes it false, and once false it stays false
\* whatever step follows.
C19_FirstTimeSetupGate ==
    [][/\ isFirstTimeSetup <=> users = {}
       /\ isFirstTimeSetup' <=> users' = {}
       /\ (lastAuth'.op = "createUser" /\ lastAuth'.ret = "row") => ~isFirstTimeSetup'
       /\ ~isFirstTimeSetup => ~isFirstTimeSetup']_vars

\* C19 witness: users exist, a later operation has run, and the gate is
\* closed.
C19_Witness ==
    /\ Cardinality(users) = MaxUsers
    /\ lastAuth.op = "updatePassword"
    /\ lastAuth.ret = "success"
    /\ ~isFirstTimeSetup

\* no two rows of the table have the same username
UniqueUsernames(table) ==
    \A u1, u2 \in table : u1.username = u2.username => u1.id = u2.id

\* C20: no two users ever have the same username.  updateUsername(userId,
\* name) with a name that a different user holds returns 'Username already
\* exists' and changes no user; with the name the user already has it
\* succeeds.
C20_UsernamesUnique ==
    [][/\ UniqueUsernames(users)
       /\ UniqueUsernames(users')
       /\ \A userId \in UserIds, name \in Usernames :
             updateUsername(userId, name) =>
                /\ (\E u \in users : u.username = name /\ u.id # userId) =>
                      /\ lastAuth'.ret = "Username already exists"
                      /\ users' = users
                /\ (\E u \in users : u.username = name /\ u.id = userId) =>
                      /\ lastAuth'.ret = "success"
                      /\ users' = users]_vars

\* C20 witness: two users exist and updateUsername has just refused a name.
C20_Witness ==
    /\ Cardinality(users) = MaxUsers
    /\ lastAuth.op = "updateUsername"
    /\ lastAuth.ret = "Username already exists"

\* C21: createUser with a username that a user already has adds and alters
\* no user, and what it returns differs from what createUser returns when
\* the store fails the INSERT for another reason.
C21_DuplicateUsernameDistinguished ==
    [][\A username \in Usernames, salt \in Salts :
          (getUserByUsername(username) # NoRow
             /\ createUser(username, "p1", salt, "none")) =>
                /\ users' = users
                /\ \A other \in Usernames :
                      ~(getUserByUsername(other) = NoRow
                          /\ createUser(other, "p1", salt, "insert"))]_vars

\* stored values that hashPassword never wrote: empty, without ':', with
\* an empty hash part, with a hash part that is too short or too long
MalformedHashes ==
    { <<>>, <<"s1">>, <<"s1", sha256(<<"p1", "s1">>)>>, <<"s1", ":">>,
      <<"s1", ":", "x">>, <<":", "x">>,
      <<"s1", ":", sha256(<<"p1", "s1">>), "x">> }

\* C22: verifyPassword(p, hashPassword(q)) is true exactly when p = q;
\* on a malformed stored value verifyPassword returns false; and every
\* stored password_hash is one that some password verifies against.
C22_PasswordRoundTrip ==
    /\ \A p, q \in Passwords : \A salt \in Salts :
          verifyPassword(p, hashPassword(q, salt)) = (p = q)
    /\ \A p \in Passwords : \A m \in MalformedHashes : verifyPassword(p, m) = FALSE
    /\ \A u \in users :
          Cardinality({p \in Passwords : verifyPassword(p, u.password_hash)}) = 1

\* C22 witness: a user's password was changed, which verifyPassword allowed,
\* and a further change has just been refused for a wrong current password.
C22_Witness ==
    /\ lastAuth.op = "updatePassword"
    /\ lastAuth.ret = "Current password is incorrect"
    /\ \E u \in users : verifyPassword("p2", u.password_hash)

\* C23: every stored session's user_id is the id of a stored user:
\* createSession for an id that no user has stores no session, and no step
\* removes a user.
C23_SessionsReferenceUsers ==
    [][/\ \A s \in sessions' : s.user_id \in Ids(users')
       /\ Ids(users) \subseteq Ids(users')
       /\ \A userId \in UserIds \ Ids(users) :
             createSession(userId) => sessions' = sessions]_vars

\* C23 witness: createSession has just been refused for an id that no user
\* has, while sessions of existing users are stored.
C23_Witness ==
    /\ lastAuth.op = "createSession"
    /\ lastAuth.ret = "throw"
    /\ lastAuth.id \notin Ids(users)
    /\ sessions # {}

\* the listings of a node type whose natural key is the endpoint
ListingsOf(nodeType, endpoint) ==
    IF nodeType = "rpc" THEN {n \in rpc_endpoints : n.endpoint = endpoint}
    ELSE IF nodeType = "bootnode" THEN {n \in boot_nodes : n.enode = endpoint}
    ELSE IF nodeType = "beacon" THEN {n \in beacon_nodes : n.enr = endpoint}
    ELSE {}

\* C24: approveAndCreateNode does not look at the status: every call that
\* succeeds on a stored request, pending or not, adds one more listing with
\* the request's endpoint as natural key and leaves the request approved,
\* so n calls leave n such listings.
C24_ApproveNotIdempotent ==
    [][\A r \in node_requests :
          (last'.op = "approveAndCreateNode" /\ last'.id = r.id /\ last'.ret = "success") =>
              /\ Cardinality(ListingsOf(r.node_type, r.endpoint)') =
                    Cardinality(ListingsOf(r.node_type, r.endpoint)) + 1
              /\ \E r2 \in node_requests' : r2.id = r.id /\ r2.status = "approved"]_vars


\* a request with this endpoint is stored whose status is not rejected
LiveRequestFor(endpoint) ==
    \E r \in node_requests : r.endpoint = endpoint /\ r.status # "rejected"

\* the directory table of this node type holds the endpoint in the column
\* the duplicate check reads
OwnTableHolds(nodeType, endpoint) ==
    \/ nodeType = "rpc" /\ \E n \in rpc_endpoints : n.endpoint = endpoint
    \/ nodeType = "bootnode" /\ \E n \in boot_nodes : n.enode = endpoint
    \/ nodeType = "beacon" /\ \E n \in beacon_nodes : n.endpoint = endpoint

\* C25: isEndpointDuplicate looks at the requests first and answers
\* 'pending request' whenever a request that is not rejected has the
\* endpoint, also when a directory row matches; otherwise only the directory
\* table of the given node type decides, and its name is the location; the
\* location is non-empty exactly when exists is true.
C25_FixedOrderFirstMatch ==
    \A endpoint \in Endpoints, nodeType \in NodeTypes :
        LET d == isEndpointDuplicate(endpoint, nodeType) IN
        /\ LiveRequestFor(endpoint) =>
               d = [exists |-> TRUE, location |-> "pending request"]
        /\ (~LiveRequestFor(endpoint) /\ OwnTableHolds(nodeType, endpoint)) =>
               d = [exists |-> TRUE, location |-> DirectoryLocation(nodeType)]
        /\ (~LiveRequestFor(endpoint) /\ ~OwnTableHolds(nodeType, endpoint)) =>
               d = [exists |-> FALSE, location |-> ""]
        /\ d.exists <=> d.location # ""

\* a request that is not rejected and a row of the matching directory table
\* hold the same endpoint, and the answer names the request
C25_Witness ==
    \E endpoint \in Endpoints, nodeType \in DirectoryTypes :
        /\ LiveRequestFor(endpoint)
        /\ OwnTableHolds(nodeType, endpoint)
        /\ isEndpointDuplicate(endpoint, nodeType).location = "pending request"

\* a directory table of another node type holds the endpoint, no request
\* does, and the answer is negative
C25_OtherTableWitness ==
    \E endpoint \in Endpoints, nodeType \in NodeTypes :
        /\ ~LiveRequestFor(endpoint)
        /\ ~OwnTableHolds(nodeType, endpoint)
        /\ \E other \in DirectoryTypes : OwnTableHolds(other, endpoint)
        /\ ~isEndpointDuplicate(endpoint, nodeType).exists


ListingWrites ==
    {"updateRpcEndpoint", "deleteRpcEndpoint", "updateBootNode", "deleteBootNode",
     "updateBeaconNode", "deleteBeaconNode"}

RequestWrites == {"updateNodeRequestStatus", "deleteNodeRequest"}

\* a stored request that is approved, of the node type of the given table
ApprovedOf(nodeType) ==
    \E r \in node_requests : r.node_type = nodeType /\ r.status = "approved"

\* C26: updating or deleting a listing (rpc, boot node or beacon node)
\* leaves every node request, its approved status included, as it was;
\* deleting a node request or changing its status leaves the three listing
\* tables as they were.
C26_RequestAndListingIndependent ==
    [][/\ last'.op \in ListingWrites => node_requests' = node_requests
       /\ last'.op \in RequestWrites =>
              /\ rpc_endpoints' = rpc_endpoints
              /\ boot_nodes' = boot_nodes
              /\ beacon_nodes' = beacon_nodes]_vars

\* the listing of an approved rpc request has been deleted, and the request
\* is still stored as approved
C26_Witness ==
    /\ last = [op |-> "deleteRpcEndpoint", id |-> 1, ret |-> "true"]
    /\ rpc_endpoints = {}
    /\ ApprovedOf("rpc")

\* an approved request has been deleted and its listing is still there
C26_RequestDeletedWitness ==
    /\ last.op = "deleteNodeRequest"
    /\ last.ret = "true"
    /\ node_requests = {}
    /\ \E n \in boot_nodes : n.enode = "e1"


\* the number of rows the three listing tables hold together
DirectoryRows ==
    Cardinality(rpc_endpoints) + Cardinality(boot_nodes) + Cardinality(beacon_nodes)

\* C27: whatever node_type a stored request has, a call of
\* approveAndCreateNode that returns success and leaves the request approved
\* has inserted exactly one directory row.
C27_ApprovedOnlyWithListing ==
    [][(last'.op = "approveAndCreateNode" /\ last'.ret = "success") =>
           /\ \E r \in node_requests' : r.id = last'.id /\ r.status = "approved"
           /\ DirectoryRows' = DirectoryRows + 1]_vars


IsEmptyNotes(notes) == notes = NULL \/ notes = ""

\* the notes of the call when it has any, otherwise the stored notes
NotesKept(existing, adminNotes) ==
    IF IsEmptyNotes(adminNotes) THEN existing ELSE adminNotes

\* the same, with notes never set (NULL) stored as the empty string
NotesKeptOrEmptied(existing, adminNotes) ==
    IF ~IsEmptyNotes(adminNotes) THEN adminNotes
    ELSE IF IsEmptyNotes(existing) THEN "" ELSE existing

\* the table after request r got this status and these notes, every other
\* field and every other request as before
WithStatusAndNotes(r, status, notes) ==
    (node_requests \ {r}) \cup {[r EXCEPT !.status = status, !.admin_notes = notes]}

\* a request whose notes are non-empty has non-empty notes after the step,
\* if it is still stored
NotesNeverEmptied ==
    \A r \in node_requests : \A r2 \in node_requests' :
        (r2.id = r.id /\ ~IsEmptyNotes(r.admin_notes)) => ~IsEmptyNotes(r2.admin_notes)

\* C30, as first stated: updateNodeRequestStatus replaces admin_notes by a
\* non-empty adminNotes and otherwise keeps the stored admin_notes;
\* approveAndCreateNode leaves admin_notes as stored; non-empty notes are
\* never reset to empty; status and admin_notes apart, the request and every
\* other request stay as they were.
C30_AdminNotesKept ==
    [][/\ \A r \in node_requests, status \in Statuses, adminNotes \in AdminNotes :
              StatusUpdated(r.id, status, adminNotes) =
                  WithStatusAndNotes(r, status, NotesKept(r.admin_notes, adminNotes))
       /\ \A r \in node_requests :
              (last'.op = "updateNodeRequestStatus" /\ last'.id = r.id) =>
                  \E status \in Statuses, adminNotes \in AdminNotes :
                      node_requests' =
                          WithStatusAndNotes(r, status, NotesKept(r.admin_notes, adminNotes))
       /\ \A r \in node_requests :
              (last'.op = "approveAndCreateNode" /\ last'.id = r.id /\ last'.ret = "success") =>
                  node_requests' = WithStatusAndNotes(r, "approved", r.admin_notes)
       /\ NotesNeverEmptied]_vars

\* C30, amended: as above, except that notes never set (NULL) are stored as
\* the empty string by every status update without notes, the one of
\* approveAndCreateNode included.
C30_AdminNotesKeptOrEmptied ==
    [][/\ \A r \in node_requests, status \in Statuses, adminNotes \in AdminNotes :
              StatusUpdated(r.id, status, adminNotes) =
                  WithStatusAndNotes(r, status, NotesKeptOrEmptied(r.admin_notes, adminNotes))
       /\ \A r \in node_requests :
              (last'.op = "updateNodeRequestStatus" /\ last'.id = r.id) =>
                  \E status \in Statuses, adminNotes \in AdminNotes :
                      node_requests' =
                          WithStatusAndNotes(r, status,
                                             NotesKeptOrEmptied(r.admin_notes, adminNotes))
       /\ \A r \in node_requests :
              (last'.op = "approveAndCreateNode" /\ last'.id = r.id /\ last'.ret = "success") =>
                  node_requests' =
                      WithStatusAndNotes(r, "approved", NotesKeptOrEmptied(r.admin_notes, NULL))
       /\ NotesNeverEmptied]_vars

\* a request with notes has been approved by approveAndCreateNode and still
\* has them, next to a request whose notes were replaced
C30_Witness ==
    /\ last = [op |-> "approveAndCreateNode", id |-> 1, ret |-> "success"]
    /\ \E r \in node_requests : r.id = 1 /\ r.status = "approved" /\ r.admin_notes = "a"
    /\ \E r \in node_requests : r.id = 2 /\ r.admin_notes = "b"


\* the session passes the validity test of getSession
Validates(s) == getSession(s.id) # NoRow

\* the session is one the cleanup DELETE of createSession removes
Swept(s) == s \notin CleanedUp(sessions)

C28_FailedCallWitness ==
    /\ lastAuth.op = "createSession"
    /\ lastAuth.ret = "throw"
    /\ \E s \in sessions : ~Validates(s) /\ Swept(s)


\* the passwords authenticateUser accepts for this username
Accepted(username) == {p \in Passwords : authenticateUser(username, p) # null}

\* what is stored, the record of the last call apart
StoredValues ==
    <<users, sessions, node_requests, rpc_endpoints, boot_nodes, beacon_nodes,
      sqlite_sequence, token_requests, settings>>

\* C29: authenticateUser returns the user exactly for the username of a
\* stored user and the password last set for that user: the one given to
\* createUser, then the new one of each successful updatePassword.  A call
\* of updatePassword for an unknown id or with a wrong current password
\* reports its error and leaves everything stored unchanged, and no other
\* operation changes the accepted password.
C29_LatestPasswordAuthenticates ==
    [][/\ \A username \in Usernames, password \in Passwords :
              authenticateUser(username, password) # null =>
                  /\ authenticateUser(username, password) \in users
                  /\ authenticateUser(username, password).username = username
       /\ \A username \in Usernames \ {u.username : u \in users} : Accepted(username) = {}
       /\ \A username \in Usernames, password \in Passwords, salt \in Salts :
              (createUser(username, password, salt, "none") /\ lastAuth'.ret = "row") =>
                  /\ Accepted(username)' = {password}
                  /\ \A u \in users : Accepted(u.username)' = Accepted(u.username)
       /\ \A userId \in UserIds, current \in Passwords, new \in Passwords, salt \in Salts :
              updatePassword(userId, current, new, salt) =>
                  IF userId \notin Ids(users)
                  THEN lastAuth'.ret = "User not found" /\ UNCHANGED StoredValues
                  ELSE IF current \notin Accepted(Row(users, userId).username)
                  THEN /\ lastAuth'.ret = "Current password is incorrect"
                       /\ UNCHANGED StoredValues
                  ELSE /\ lastAuth'.ret = "success"
                       /\ \A u \in users :
                              Accepted(u.username)' =
                                  IF u.id = userId THEN {new} ELSE Accepted(u.username)
       /\ lastAuth'.op \notin {"createUser", "updatePassword"} =>
              \A u \in users : \E u2 \in users' :
                  u2.id = u.id /\ Accepted(u2.username)' = Accepted(u.username)]_vars

\* a user whose password was changed has just been authenticated with the
\* new password, and the first password is no longer accepted
C29_Witness ==
    /\ lastAuth.op = "authenticateUser"
    /\ lastAuth.ret = "user"
    /\ \E u \in users : u.id = lastAuth.id /\ Accepted(u.username) = {"p2"}

====
